---- MODULE Spec2Model ----
(***************************************************************************)
(* A model of the VM pool orchestrator of bench/bench: Bench.guests() and  *)
(* the helpers it drives (Vm.__enter__, Vm.__exit__, Vm.wait_for_boot,     *)
(* Bench._guests_prepare, utils.daemon).  One orchestrator thread runs the *)
(* pool scope; the environment (process launches, the control-plane        *)
(* socket, SSH, free-memory readings, the operator's interrupt) answers    *)
(* each step with one of the outcomes the step can have.                   *)
(*                                                                         *)
(* Memory sizes are counted in GiB.                                        *)
(***************************************************************************)
EXTENDS Integers, Sequences, FiniteSets

\* ------------------------------------------------------------- bounds
MaxNum == 2          \* largest pool size explored (Bench.num)
MaxTimeout == 2      \* largest retry budget explored (Bench.timeout)
MaxFreeSteps == 5    \* free-memory readings are 0..MaxFreeSteps steps of FreeStep GiB
FreeStep == 8        \* granularity of the explored free-memory readings, GiB
E2ENum == 3          \* pool size of the end-to-end admission scenario
E2EFree == 40        \* its constant free-memory reading, GiB
MantBits == 6        \* significand width of the floats of the size computations
PageSize == 4        \* the page size they round to, in bytes
GiB == 8             \* bytes in a GiB where a size is given in bytes
MaxId == 260         \* largest VM ordinal whose derived names are compared

\* -------------------------------------------------- program constants
DefaultMem == 16     \* Bench.mem = 16 << 30, in GiB
RatioNum == 2        \* Bench.dram_ratio = 0.4 = RatioNum / RatioDen
RatioDen == 5
StatusOk == 200         \* HTTPStatus.OK
StatusNoContent == 204  \* HTTPStatus.NO_CONTENT

VARIABLES
  num,        \* Bench.num
  timeout,    \* Bench.timeout
  hetero,     \* Bench.hetero
  balloon,    \* Bench.balloon: "hetero", "legacy" or "none"
  mem,        \* Bench.mem, GiB
  outExists,  \* whether the run's output directory already exists
  outLink,    \* target of the `out` symlink: "previous" (as found) or "run" (out_dir)
  outLog,     \* whether this call has installed main.log in the output directory
  pc,         \* position of the orchestrator inside Bench.guests()
  cur,        \* ordinal of the VM being entered or probed
  step,       \* position inside Vm.__enter__ of VM cur
  started,    \* per VM: the daemons pushed on Vm._stack, in start order
  stopped,    \* per VM: the daemons terminated and waited for, in stop order
  stack,      \* the callbacks of the ExitStack of guests(), bottom first
  exc,        \* the exception in flight (NoExc: none)
  enterFail,  \* which Vm.__enter__ failed, at which step, with what, and what it raised
  probes,     \* per VM: the outcomes of its readiness probes, in order
  waitLeft,   \* iterations left in the loop of wait_for_boot of VM cur
  booted,     \* per VM: "pending", "booted" (wait_for_boot returned) or "failed"
  remain,     \* _guests_prepare: VMs not yet prepared
  retryLeft,  \* _guests_prepare: iterations of the outer retry loop not yet finished
  batches,    \* _guests_prepare: the batches prepared, in order
  zeroChecks, \* _guests_prepare: free-memory checks that found no affordable VM
  freeReads,  \* _guests_prepare: calls of node_memory_free
  readLog,    \* _guests_prepare: per call of node_memory_free, the seconds slept in
              \* _guests_prepare before it and the batch size it led to
  prepared,   \* how _guests_prepare ended: "no", "returned" or "raised", and the error
  workload,   \* "no", or the outcome of the caller's body of the with block
  vmExit,     \* per VM: "none", or how Vm.__exit__ went: "clean", "abnormal" (entered
              \* with an exception), "raised" or "interrupted" (during collection);
              \* after a second call: "again-noop" or "again-raised"
  collected,  \* per VM: the collection steps Vm.__exit__ attempted, in order
  call,       \* a call of a helper on its own: which one, its input, its outcome
  sent,       \* per VM: HTTP requests Vm.__enter__ sent to the hypervisor's API socket
  socket      \* per VM: the hypervisor has created its API socket

vars == << num, timeout, hetero, balloon, mem, outExists, outLink, outLog, pc, cur, step, started,
           stopped, stack, exc, enterFail, probes, waitLeft, booted, remain,
           retryLeft, batches, zeroChecks, freeReads, readLog, prepared, workload, vmExit,
           collected, call, sent, socket >>

cfgVars == << num, timeout, hetero, balloon, mem, outExists >>
outVars == << outLink, outLog >>
enterVars == << cur, step, started, enterFail >>
waitVars == << probes, waitLeft, booted >>
admitVars == << remain, retryLeft, batches, zeroChecks, freeReads, readLog, prepared >>
exitVars == << stopped, vmExit, collected >>
apiVars == << sent, socket >>

\* ------------------------------------------------------------ helpers
VmIds == 0..((IF MaxNum >= E2ENum THEN MaxNum ELSE E2ENum) - 1)
MemChoices == {DefaultMem}
FreeValues == {f * FreeStep : f \in 0..MaxFreeSteps}
Balloons == {"hetero", "legacy", "none"}

Min(a, b) == IF a <= b THEN a ELSE b

Reverse(s) == [i \in 1..Len(s) |-> s[Len(s) + 1 - i]]

Error(kind, msg, vm) == [kind |-> kind, msg |-> msg, vm |-> vm]
NoExc == Error("none", "", -1)
KeyboardInterrupt == Error("KeyboardInterrupt", "", -1)

NoCall == [op |-> "none"]

NoFail == [vm |-> -1, step |-> "none", error |-> NoExc, raised |-> NoExc]

Callback(kind, id) == [kind |-> kind, id |-> id]

AllDaemons == << "data", "out", "ch" >>

\* Nothing has run yet: guests() is about to be called.
InitState ==
  /\ pc = "open"
  /\ outLink = "previous"
  /\ outLog = FALSE
  /\ cur = 0
  /\ step = "data"
  /\ started = [v \in VmIds |-> << >>]
  /\ stopped = [v \in VmIds |-> << >>]
  /\ stack = << >>
  /\ exc = NoExc
  /\ enterFail = NoFail
  /\ probes = [v \in VmIds |-> << >>]
  /\ waitLeft = 0
  /\ booted = [v \in VmIds |-> "pending"]
  /\ remain = 0
  /\ retryLeft = 0
  /\ batches = << >>
  /\ zeroChecks = 0
  /\ freeReads = 0
  /\ readLog = << >>
  /\ prepared = [state |-> "no", error |-> NoExc]
  /\ workload = "no"
  /\ vmExit = [v \in VmIds |-> "none"]
  /\ collected = [v \in VmIds |-> << >>]
  /\ sent = [v \in VmIds |-> 0]
  /\ socket = [v \in VmIds |-> FALSE]

Init ==
  /\ num \in 1..MaxNum
  /\ timeout \in 0..MaxTimeout
  /\ hetero \in BOOLEAN
  /\ balloon \in Balloons
  /\ mem \in MemChoices
  /\ outExists \in BOOLEAN
  /\ call = NoCall
  /\ InitState

\* Bench.guests(), up to the first callback of its ExitStack: out.mkdir(parents=True)
\* raises FileExistsError when the directory exists; otherwise main.log is opened in
\* it, the `out` symlink is replaced by one to it, the ownership fix is registered
\* and VM 0 is about to be entered.
MkdirExistOk(exists) == FALSE
MkdirFails(exists) == exists

GuestsOpen ==
  /\ pc = "open"
  /\ IF MkdirFails(outExists)
     THEN /\ exc' = Error("FileExistsError", "", -1)
          /\ pc' = "done"
          /\ UNCHANGED << stack, outVars >>
     ELSE /\ outLog' = TRUE
          /\ outLink' = "run"
          /\ stack' = << Callback("chown", -1) >>
          /\ pc' = "enter"
          /\ UNCHANGED exc
  /\ UNCHANGED << call, apiVars, cfgVars, enterVars, waitVars, admitVars, exitVars, workload >>

\* contextlib.ExitStack, as Vm._stack uses it: close() and __exit__() leave the
\* contexts last entered first.  Leaving a daemon() context terminates the process
\* and waits for it (utils.daemon, the finally clause).
ExitStackCloseFifo(entered) == entered
ExitStackClose(entered) == Reverse(entered)

\* Vm.__enter__, the except clause: self._stack.close() before raise e.
EnterRollbackMissing(entered) == << >>
EnterRollback(entered) == ExitStackClose(entered)

\* A step of Vm.__enter__ of VM cur succeeded; d is the daemon it started, if any.
EnterOk(d, next) ==
  /\ started' = [started EXCEPT ![cur] = IF d = "" THEN @ ELSE Append(@, d)]
  /\ step' = next
  /\ UNCHANGED << call, socket, cfgVars, outVars, pc, cur, stopped, stack, exc, enterFail, waitVars,
                  admitVars, workload, vmExit, collected >>

\* A step of Vm.__enter__ of VM cur raised e: the except BaseException clause logs,
\* closes Vm._stack and raises e again; the list comprehension of guests() ends and
\* the ExitStack of guests() starts to unwind.
EnterRaise(e) ==
  /\ stopped' = [stopped EXCEPT ![cur] = EnterRollback(started[cur])]
  /\ enterFail' = [vm |-> cur, step |-> step, error |-> e, raised |-> e]
  /\ exc' = e
  /\ pc' = "unwind"
  /\ UNCHANGED << call, socket, cfgVars, outVars, cur, step, started, stack, waitVars, admitVars,
                  workload, vmExit, collected >>

\* daemon(): open() or Popen() raises OSError before the context is entered, so
\* nothing is pushed on Vm._stack; the operator may interrupt the call.
DaemonOutcomes == {"ok", "OSError", "KeyboardInterrupt"}

StartDaemon(d, next) ==
  /\ \E o \in DaemonOutcomes :
       CASE o = "ok" -> EnterOk(d, next)
         [] o = "OSError" -> EnterRaise(Error("OSError", d, cur))
         [] OTHER -> EnterRaise(KeyboardInterrupt)
  /\ UNCHANGED sent

\* self._stack.enter_context(virtiofsd(self.bench.data_dir, data_socket))
StartDataFs ==
  /\ pc = "enter" /\ step = "data"
  /\ StartDaemon("data", "out")

\* self._stack.enter_context(virtiofsd(self.out_dir, out_socket))
StartOutFs ==
  /\ pc = "enter" /\ step = "out"
  /\ StartDaemon("out", "ch")

\* ch = self._stack.enter_context(daemon(args, ...))
StartHypervisor ==
  /\ pc = "enter" /\ step = "ch"
  /\ StartDaemon("ch", "info")

\* Resource.get: the request fails to connect (httpx.ConnectError), or answers; a
\* status other than 200 raises RuntimeError(res.text).
GetOutcomes == {"200", "ConnectError", "404", "500"}

ResourceGet(status) ==
  CASE status = "200" -> NoExc
    [] status = "ConnectError" -> Error("ConnectError", "", -1)
    [] OTHER -> Error("RuntimeError", status, -1)

\* A request to a socket that does not exist yet cannot connect; one to a
\* listening hypervisor is answered.
GetOutcomesAt(listening) ==
  IF listening THEN GetOutcomes \ {"ConnectError"} ELSE {"ConnectError"}

\* Resource.get / Resource.request call the session once, with no loop around the
\* call; Api builds its httpx.HTTPTransport without retries.
RequestsSentRetrying(failed) == IF failed THEN 2 ELSE 1
RequestsSent(failed) == 1

\* daemon() returns as soon as Popen has forked the hypervisor, which creates its
\* API socket some time later.  Vm.__enter__ sends its info request with no wait
\* for the socket; nothing reads the socket's state after that request.
HypervisorListens ==
  /\ pc = "enter" /\ step = "info"
  /\ ~socket[cur]
  /\ socket' = [socket EXCEPT ![cur] = TRUE]
  /\ UNCHANGED << call, sent, cfgVars, outVars, pc, enterVars, waitVars, admitVars,
                  exitVars, stack, exc, workload >>

\* self._api = Api(ch_socket); info = self._api.vm.info.get().  An interrupt lands
\* before or after the request is sent.
ApiInfo ==
  /\ pc = "enter" /\ step = "info"
  /\ \/ \E o \in GetOutcomesAt(socket[cur]) :
          /\ IF ResourceGet(o) = NoExc
             THEN EnterOk("", "ssh")
             ELSE EnterRaise(ResourceGet(o))
          /\ sent' = [sent EXCEPT ![cur] = @ + RequestsSent(ResourceGet(o) # NoExc)]
     \/ /\ EnterRaise(KeyboardInterrupt)
        /\ \E n \in {0, 1} : sent' = [sent EXCEPT ![cur] = @ + n]

\* [stack.enter_context(Vm(id=i, ...)) for i in range(self.num)]: every VM of the
\* pool is entered in turn, before guests() goes on to _guests_wait.
MoreVmsToEnterSkipsLast(c) == c + 2 < num
MoreVmsToEnter(c) == c + 1 < num

\* self._ssh = fabric.Connection(self.ip, **self.ssh_config); on success __enter__
\* returns and enter_context pushes Vm.__exit__ on the ExitStack of guests().  After
\* the last VM: self._guests is built and _guests_wait starts with VM 0.

SshHandle ==
  /\ pc = "enter" /\ step = "ssh"
  /\ \E o \in {"ok", "Exception", "KeyboardInterrupt"} :
       CASE o = "ok" ->
              /\ stack' = Append(stack, Callback("vm", cur))
              /\ IF MoreVmsToEnter(cur)
                 THEN /\ cur' = cur + 1
                      /\ step' = "data"
                      /\ UNCHANGED << pc, waitLeft >>
                 ELSE /\ cur' = 0
                      /\ step' = "none"
                      /\ pc' = "wait"
                      /\ waitLeft' = timeout
              /\ UNCHANGED << call, socket, cfgVars, outVars, started, enterFail, exc, probes,
                              booted, admitVars, exitVars, workload >>
         [] o = "Exception" -> EnterRaise(Error("Exception", "ssh", cur))
         [] OTHER -> EnterRaise(KeyboardInterrupt)
  /\ UNCHANGED sent

\* An exception leaves the body of the with ExitStack() block of guests(): the
\* stack starts to unwind with it.
Raise(e) ==
  /\ exc' = e
  /\ pc' = "unwind"

\* --------------------------------------------------- Vm.wait_for_boot
\* What self._ssh.run("date -Is", hide=True) can do: succeed, fail to connect, raise
\* something else, or be interrupted.  (A single fabric.Connection never raises
\* GroupException, the other exception the loop swallows.)
ProbeOutcomes == {"ok", "NoValidConnectionsError", "Exception", "KeyboardInterrupt"}

\* except NoValidConnectionsError: pass / except GroupException: pass
ProbeSwallowsAny == {"NoValidConnectionsError", "GroupException", "Exception"}
ProbeSwallowed == {"NoValidConnectionsError", "GroupException"}

BootFailed(v) == Error("RuntimeError", "failed to boot", v)

\* if retry == 0: raise RuntimeError(f"vm {self.id} failed to boot")
BootRetryExhaustedOffByOne(retry) == retry = 1
BootRetryExhausted(retry) == retry = 0

\* wait_for_boot of VM cur returns; _guests_wait goes on with the next VM, and after
\* the last one _guests_prepare starts (remain = len(vms), the retry loop unstarted).
WaitReturn ==
  /\ booted' = [booted EXCEPT ![cur] = "booted"]
  /\ IF cur + 1 < num
     THEN /\ cur' = cur + 1
          /\ waitLeft' = timeout
          /\ UNCHANGED << pc, remain, retryLeft >>
     ELSE /\ pc' = "prepare"
          /\ remain' = num
          /\ retryLeft' = timeout
          /\ UNCHANGED << cur, waitLeft >>
  /\ UNCHANGED exc

\* One iteration of for retry in reversed(range(self.bench.timeout)).
Probe ==
  /\ pc = "wait" /\ waitLeft > 0
  /\ \E o \in ProbeOutcomes :
       LET retry == waitLeft - 1 IN
       /\ probes' = [probes EXCEPT ![cur] = Append(@, o)]
       /\ CASE o = "ok" -> WaitReturn
            [] o \in ProbeSwallowed ->
                 IF BootRetryExhausted(retry)
                 THEN /\ Raise(BootFailed(cur))
                      /\ booted' = [booted EXCEPT ![cur] = "failed"]
                      /\ UNCHANGED << cur, waitLeft, remain, retryLeft >>
                 ELSE /\ waitLeft' = retry
                      /\ UNCHANGED << pc, exc, cur, booted, remain, retryLeft >>
            [] o = "Exception" ->
                 /\ Raise(Error("Exception", "probe", cur))
                 /\ UNCHANGED << cur, waitLeft, booted, remain, retryLeft >>
            [] OTHER ->
                 /\ Raise(KeyboardInterrupt)
                 /\ UNCHANGED << cur, waitLeft, booted, remain, retryLeft >>
  /\ UNCHANGED << call, apiVars, cfgVars, outVars, step, started, enterFail, stack, batches, zeroChecks,
                  freeReads, readLog, prepared, workload, exitVars >>

\* The for loop of wait_for_boot runs out of iterations without a break or a raise
\* (the code reaches this with timeout = 0 only): wait_for_boot returns.
WaitLoopEnd ==
  /\ pc = "wait" /\ waitLeft = 0
  /\ WaitReturn
  /\ UNCHANGED << call, apiVars, cfgVars, outVars, step, started, enterFail, stack, probes, batches,
                  zeroChecks, freeReads, readLog, prepared, workload, exitVars >>

\* ------------------------------------------------ Bench._guests_prepare
\* vmmem = self.mem; if not self.balloon: vmmem *= self.dram_ratio;
\* enough = free // vmmem.  dram_ratio is the rational RatioNum / RatioDen.
EnoughIgnoresRatio(free) == free \div mem
Enough(free) ==
  IF balloon = "none"
  THEN (free * RatioDen) \div (mem * RatioNum)
  ELSE free \div mem

\* batch = min(enough, remain)
BatchIgnoresMemory(enough, rem) == rem
Batch(enough, rem) == Min(enough, rem)

\* Without a balloon vmmem and enough are floats, and min() returns its first
\* argument unless the second is smaller: batch is a float when enough <= remain,
\* and vms[remain - batch : remain] then raises TypeError.
BatchIsFloat(enough, rem) == balloon = "none" /\ enough <= rem

\* vms[remain - batch : remain]: the batch is cut from the end of the pending VMs.
SliceFront(rem, batch) == [lo |-> num - rem, hi |-> num - rem + batch]
Slice(rem, batch) == [lo |-> rem - batch, hi |-> rem]

\* balloon_wait = int(self.mem >> 30) * 3, for a size m in bytes
balloon_wait_per_byte(m) == m * 3
balloon_wait(m) == (m \div GiB) * 3

\* if self.balloon: enable_balloon(group, ...); group.sudo(f"sleep {balloon_wait}"):
\* the seconds the group of a batch has slept when its preparation ends with o.
SettleSkipped(o) == 0
Settle(o) == IF balloon # "none" /\ o = "ok" THEN balloon_wait(mem * GiB) ELSE 0

\* The seconds slept in _guests_prepare so far.
RECURSIVE SleptAfter(_)
SleptAfter(n) == IF n = 0 THEN 0 ELSE SleptAfter(n - 1) + batches[n].settle
Clock == SleptAfter(Len(batches))

\* if retry == 0: raise RuntimeError("Not enough memory for all VMs")
AdmitRetryExhaustedEarly(retry) == retry <= 1
AdmitRetryExhausted(retry) == retry = 0

NotEnoughMemory == Error("RuntimeError", "Not enough memory for all VMs", -1)

\* What the bulk guest commands of one batch (prepare_dirs, prepare_kernel,
\* enable_balloon, the settle sleep) can do.
PrepareOutcomes == {"ok", "GroupException", "KeyboardInterrupt"}

\* _guests_prepare returns; guests() registers the KVM debug copy and yields.
PrepareReturn ==
  /\ prepared' = [state |-> "returned", error |-> NoExc]
  /\ stack' = Append(stack, Callback("kvm", -1))
  /\ pc' = "body"
  /\ UNCHANGED exc

PrepareRaise(e) ==
  /\ prepared' = [state |-> "raised", error |-> e]
  /\ Raise(e)
  /\ UNCHANGED stack

\* for retry in reversed(range(self.timeout)): the value of retry in the iteration
\* entered with left iterations to go; the iteration after it has retry to go.
AdmitRetryStuck(left) == left
AdmitRetry(left) == left - 1

\* One pass of the while loop of the memory-gated branch: read the free memory of
\* the DRAM node (a value of readings), size the batch, and either leave the while
\* loop (no VM fits) or prepare the batch vms[remain - batch : remain].
AdmitCheckWith(readings) ==
  /\ pc = "prepare" /\ hetero /\ retryLeft > 0 /\ remain > 0
  /\ \E free \in readings, o \in PrepareOutcomes :
       LET retry == AdmitRetry(retryLeft)
           enough == Enough(free)
           batch == Batch(enough, remain)
       IN
       /\ freeReads' = freeReads + 1
       /\ readLog' = Append(readLog, [at |-> Clock, batch |-> batch])
       /\ IF batch = 0
          THEN /\ o = "ok"
               /\ zeroChecks' = zeroChecks + 1
               /\ UNCHANGED << batches, remain >>
               /\ IF AdmitRetryExhausted(retry)
                  THEN /\ PrepareRaise(NotEnoughMemory)
                       /\ UNCHANGED retryLeft
                  ELSE /\ retryLeft' = retry
                       /\ UNCHANGED << pc, exc, stack, prepared >>
          ELSE IF BatchIsFloat(enough, remain)
          THEN /\ o = "ok"
               /\ PrepareRaise(Error("TypeError", "slice indices must be integers", -1))
               /\ UNCHANGED << batches, remain, retryLeft, zeroChecks >>
          ELSE /\ batches' = Append(batches, [lo |-> Slice(remain, batch).lo,
                                              hi |-> Slice(remain, batch).hi,
                                              free |-> free, gated |-> TRUE,
                                              settle |-> Settle(o)])
               /\ UNCHANGED << retryLeft, zeroChecks >>
               /\ CASE o = "ok" ->
                         /\ remain' = remain - batch
                         /\ IF remain - batch = 0
                            THEN PrepareReturn
                            ELSE UNCHANGED << pc, exc, stack, prepared >>
                    [] o = "GroupException" ->
                         /\ PrepareRaise(Error("GroupException", "prepare", -1))
                         /\ UNCHANGED remain
                    [] OTHER ->
                         /\ PrepareRaise(KeyboardInterrupt)
                         /\ UNCHANGED remain
  /\ UNCHANGED << call, apiVars, cfgVars, outVars, enterVars, waitVars, workload, exitVars >>

\* free = node_memory_free(self.dram_node): any reading.
AdmitCheck == AdmitCheckWith(FreeValues)

\* The retry loop of the memory-gated branch runs out of iterations without a break
\* or a raise (the code reaches this with timeout = 0 only): _guests_prepare returns.
PrepareLoopEnd ==
  /\ pc = "prepare" /\ hetero /\ retryLeft = 0
  /\ PrepareReturn
  /\ UNCHANGED << call, apiVars, cfgVars, outVars, enterVars, waitVars, remain, retryLeft, batches,
                  zeroChecks, freeReads, readLog, workload, exitVars >>

\* fabric.ThreadingGroup(*[vm.ip for vm in vms], ...): one group over all the VMs,
\* formed without a free-memory reading.
WholePoolButLast == [lo |-> 0, hi |-> num - 1, free |-> -1, gated |-> FALSE, settle |-> 0]
WholePool == [lo |-> 0, hi |-> num, free |-> -1, gated |-> FALSE, settle |-> 0]

\* The else branch: the whole pool is prepared as one group, no memory is read.
PrepareAll ==
  /\ pc = "prepare" /\ ~hetero
  /\ \E o \in PrepareOutcomes :
       /\ batches' = Append(batches, [WholePool EXCEPT !.settle = Settle(o)])
       /\ CASE o = "ok" -> PrepareReturn
           [] o = "GroupException" -> PrepareRaise(Error("GroupException", "prepare", -1))
           [] OTHER -> PrepareRaise(KeyboardInterrupt)
  /\ UNCHANGED << call, apiVars, cfgVars, outVars, enterVars, waitVars, remain, retryLeft, zeroChecks,
                  freeReads, readLog, workload, exitVars >>

\* ------------------------------------------- the caller's with body
\* What the body of with self.guests() can do (Bench.run, Bench._benchmark): return,
\* or raise a fan-out GroupException, an SSHException, another error, or be
\* interrupted.
BodyOutcomes == {"ok", "GroupException", "SSHException", "Exception",
                 "KeyboardInterrupt"}

\* except GroupException / except SSHException around the yield of guests()
GuestsCatches(kind) == kind \in {"GroupException", "SSHException"}

Body ==
  /\ pc = "body"
  /\ \E o \in BodyOutcomes :
       /\ workload' = o
       /\ exc' = IF o = "ok" \/ GuestsCatches(o) THEN NoExc ELSE Error(o, "body", -1)
  /\ pc' = "unwind"
  /\ UNCHANGED << call, apiVars, cfgVars, outVars, enterVars, waitVars, admitVars, stack, exitVars >>

\* ------------------------------- the ExitStack of guests() unwinds
Top == stack[Len(stack)]
Pop == SubSeq(stack, 1, Len(stack) - 1)

\* lambda: check_output(f"sudo cp -r /sys/kernel/debug/kvm {out}", shell=True); an
\* exception of a callback replaces the one in flight.
UnwindKvm ==
  /\ pc = "unwind" /\ stack # << >> /\ Top.kind = "kvm"
  /\ stack' = Pop
  /\ \E o \in {"ok", "CalledProcessError"} :
       exc' = IF o = "ok" THEN exc ELSE Error(o, "cp kvm", -1)
  /\ UNCHANGED << call, apiVars, cfgVars, outVars, pc, enterVars, waitVars, admitVars, workload, exitVars >>

\* The three guest-facing steps of Vm.__exit__ on the normal path, in order.
CollectSteps == << "collect_logs", "collect_kvm_logs", "poweroff" >>

\* What a collection step raises when it fails on its own.
CollectError(i, v) ==
  CASE i = 1 -> Error("UnexpectedExit", "collect_logs", v)
    [] i = 2 -> Error("AssertionError", "collect_kvm_logs", v)
    [] OTHER -> Error("SSHException", "poweroff", v)

\* if ty is None: the collection steps run only with no exception in flight.
ExitCollectsAlways(ty) == TRUE
ExitCollects(ty) == ty = NoExc

\* return self._stack.__exit__(ty, val, tb)
VmExitStopsNormalOnly(entered, ty) == IF ty = NoExc THEN ExitStackClose(entered) ELSE << >>
VmExitStops(entered, ty) == ExitStackClose(entered)

\* Vm.__exit__(ty, val, tb) of the VM on top of the stack.  With no exception in
\* flight the three collection steps run first, and one that raises ends __exit__
\* there: the exception leaves __exit__ before self._stack.__exit__ is reached.
UnwindVm ==
  /\ pc = "unwind" /\ stack # << >> /\ Top.kind = "vm"
  /\ stack' = Pop
  /\ LET v == Top.id IN
       IF ExitCollects(exc)
       THEN \E failAt \in 0..Len(CollectSteps), interrupt \in BOOLEAN :
              /\ failAt = 0 => ~interrupt
              /\ collected' = [collected EXCEPT ![v] =
                     SubSeq(CollectSteps, 1, IF failAt = 0 THEN Len(CollectSteps) ELSE failAt)]
              /\ IF failAt = 0
                 THEN /\ stopped' = [stopped EXCEPT ![v] = VmExitStops(started[v], exc)]
                      /\ vmExit' = [vmExit EXCEPT ![v] = "clean"]
                      /\ UNCHANGED exc
                 ELSE /\ exc' = IF interrupt THEN KeyboardInterrupt ELSE CollectError(failAt, v)
                      /\ vmExit' = [vmExit EXCEPT ![v] =
                                      IF interrupt THEN "interrupted" ELSE "raised"]
                      /\ UNCHANGED stopped
       ELSE /\ stopped' = [stopped EXCEPT ![v] = VmExitStops(started[v], exc)]
            /\ vmExit' = [vmExit EXCEPT ![v] = "abnormal"]
            /\ UNCHANGED << exc, collected >>
  /\ UNCHANGED << call, apiVars, cfgVars, outVars, pc, enterVars, waitVars, admitVars, workload >>

\* lambda: check_output(f"sudo chown -R $(id -un):$(id -gn) {out}", shell=True), the
\* first callback registered and the last to run; guests() then returns, or raises
\* the exception in flight.
UnwindChown ==
  /\ pc = "unwind" /\ stack # << >> /\ Top.kind = "chown"
  /\ stack' = Pop
  /\ \E o \in {"ok", "CalledProcessError"} :
       exc' = IF o = "ok" THEN exc ELSE Error(o, "chown", -1)
  /\ pc' = "done"
  /\ UNCHANGED << call, apiVars, cfgVars, outVars, enterVars, waitVars, admitVars, workload, exitVars >>

Next ==
  \/ GuestsOpen
  \/ StartDataFs
  \/ StartOutFs
  \/ StartHypervisor
  \/ HypervisorListens
  \/ ApiInfo
  \/ SshHandle
  \/ Probe
  \/ WaitLoopEnd
  \/ AdmitCheck
  \/ PrepareLoopEnd
  \/ PrepareAll
  \/ Body
  \/ UnwindKvm
  \/ UnwindVm
  \/ UnwindChown

Spec == Init /\ [][Next]_vars

\* ------------------------------------- the end-to-end admission scenario
\* A pool of E2ENum VMs of 16 GiB, hetero enabled, no balloon, and a DRAM node whose
\* free memory reads E2EFree at every check; every other step is as in Spec.
InitE2E ==
  /\ num = E2ENum
  /\ timeout = MaxTimeout
  /\ hetero = TRUE
  /\ balloon = "none"
  /\ mem = DefaultMem
  /\ outExists = FALSE
  /\ call = NoCall
  /\ InitState

AdmitCheckE2E == AdmitCheckWith({E2EFree})

NextE2E ==
  \/ GuestsOpen
  \/ StartDataFs
  \/ StartOutFs
  \/ StartHypervisor
  \/ HypervisorListens
  \/ ApiInfo
  \/ SshHandle
  \/ Probe
  \/ AdmitCheckE2E
  \/ Body
  \/ UnwindKvm
  \/ UnwindVm
  \/ UnwindChown

SpecE2E == InitE2E /\ [][NextE2E]_vars

\* ------------------------------------- a Vm torn down a second time
\* What is left on Vm._stack of VM v: ExitStack.__exit__ pops every context it
\* leaves, so nothing once the first __exit__ has reached self._stack.__exit__.
VmStack(v) == IF vmExit[v] \in {"clean", "abnormal"} THEN << >> ELSE started[v]

\* The caller's exception in flight at the second call, if any.
SecondExitTypes == {NoExc, Error("Exception", "caller", -1)}

\* Vm.__exit__(ty, val, tb) called once more on a Vm that was torn down.  With ty
\* None the collection steps run again: collect_logs opens an SSH session to the
\* guest, which is gone with its hypervisor, and the connection error leaves
\* __exit__.  With ty set only self._stack.__exit__ runs, on the empty stack.
VmExitAgain ==
  /\ pc = "done"
  /\ \E v \in VmIds, ty \in SecondExitTypes :
       /\ v < num /\ vmExit[v] \in {"clean", "abnormal"}
       /\ IF ExitCollects(ty)
          THEN /\ collected' = [collected EXCEPT ![v] = Append(@, CollectSteps[1])]
               /\ exc' = Error("NoValidConnectionsError", CollectSteps[1], v)
               /\ vmExit' = [vmExit EXCEPT ![v] = "again-raised"]
               /\ UNCHANGED stopped
          ELSE /\ stopped' = [stopped EXCEPT ![v] = @ \o VmExitStops(VmStack(v), ty)]
               /\ vmExit' = [vmExit EXCEPT ![v] = "again-noop"]
               /\ UNCHANGED << exc, collected >>
  /\ UNCHANGED << call, apiVars, cfgVars, outVars, pc, enterVars, waitVars, admitVars, stack,
                  workload >>

\* One VM in a pool of its own, default settings but for the probe budget.
InitTwice ==
  /\ num = 1
  /\ timeout = MaxTimeout
  /\ hetero = FALSE
  /\ balloon = "none"
  /\ mem = DefaultMem
  /\ outExists = FALSE
  /\ call = NoCall
  /\ InitState

NextTwice ==
  \/ GuestsOpen
  \/ StartDataFs
  \/ StartOutFs
  \/ StartHypervisor
  \/ HypervisorListens
  \/ ApiInfo
  \/ SshHandle
  \/ Probe
  \/ PrepareAll
  \/ Body
  \/ UnwindKvm
  \/ UnwindVm
  \/ UnwindChown
  \/ VmExitAgain

SpecTwice == InitTwice /\ [][NextTwice]_vars

\* ------------------------------------- helpers called on their own
\* No pool is running: a Bench with one VM whose guests() is never called.
IdlePool ==
  /\ num = 1
  /\ timeout = 0
  /\ hetero = FALSE
  /\ balloon = "none"
  /\ mem = DefaultMem
  /\ outExists = FALSE
  /\ InitState

poolVars == << apiVars, cfgVars, outVars, pc, enterVars, waitVars, admitVars, exitVars,
              stack, exc, workload >>

\* ------------------------------------- vm_api.Resource
Statuses == {200, 201, 204, 301, 400, 404, 500, 503}
Texts == {"", "{}", "internal error"}
Responses == [status : Statuses, text : Texts]
NoResponse == [status |-> 0, text |-> ""]

Returns(res) == [state |-> "returned", raised |-> NoExc, response |-> res]
Raises(e) == [state |-> "raised", raised |-> e, response |-> NoResponse]
Pending == [state |-> "pending", raised |-> NoExc, response |-> NoResponse]

\* Resource.get: if res.status_code != HTTPStatus.OK: raise RuntimeError(res.text)
GetAcceptsAnySuccess(res) ==
  IF res.status \notin {StatusOk, StatusNoContent}
  THEN Raises(Error("RuntimeError", res.text, -1))
  ELSE Returns(res)
Get(res) ==
  IF res.status # StatusOk
  THEN Raises(Error("RuntimeError", res.text, -1))
  ELSE Returns(res)

\* Resource.request: if res.status_code != HTTPStatus.NO_CONTENT: raise
\* RuntimeError(res.text)
Request(res) ==
  IF res.status # StatusNoContent
  THEN Raises(Error("RuntimeError", res.text, -1))
  ELSE Returns(res)

ApiCalls == [op : {"get", "put", "patch"}, res : Responses, out : {Pending}, sent : {0}]

InitApi ==
  /\ call \in ApiCalls
  /\ IdlePool

\* Resource.get() receives the response call.res.
ResourceGetCall ==
  /\ call.op = "get" /\ call.out = Pending
  /\ call' = [call EXCEPT !.out = Get(call.res),
                          !.sent = @ + RequestsSent(Get(call.res).state = "raised")]
  /\ UNCHANGED poolVars

\* Resource.put() / Resource.patch(): self.request(...) receives the response.
ResourceRequestCall ==
  /\ call.op \in {"put", "patch"} /\ call.out = Pending
  /\ call' = [call EXCEPT !.out = Request(call.res),
                          !.sent = @ + RequestsSent(Request(call.res).state = "raised")]
  /\ UNCHANGED poolVars

NextApi ==
  \/ ResourceGetCall
  \/ ResourceRequestCall

SpecApi == InitApi /\ [][NextApi]_vars

\* ------------------------------------- requests to the control plane
\* The VMs of a pool start up, each sending its info request, while a get, put or
\* patch call is made on its own.
InitStartup ==
  /\ num \in 1..MaxNum
  /\ timeout = 0
  /\ hetero = FALSE
  /\ balloon = "none"
  /\ mem = DefaultMem
  /\ outExists = FALSE
  /\ call \in ApiCalls
  /\ InitState

NextStartup ==
  \/ GuestsOpen
  \/ StartDataFs
  \/ StartOutFs
  \/ StartHypervisor
  \/ HypervisorListens
  \/ ApiInfo
  \/ SshHandle
  \/ ResourceGetCall
  \/ ResourceRequestCall

SpecStartup == InitStartup /\ [][NextStartup]_vars

\* ------------------------------------- Bench.dram_size / Bench.pmem_size
\* A float is n / 2^s with a significand of at most MantBits bits: the doubles of
\* the source, at a width that lets every float of the range be tried.
RECURSIVE BitLength(_)
BitLength(n) == IF n = 0 THEN 0 ELSE 1 + BitLength(n \div 2)

\* The float nearest to n / 2^s, ties to the even significand.
Fl(n, s) ==
  IF BitLength(n) <= MantBits
  THEN [n |-> n, s |-> s]
  ELSE LET d == BitLength(n) - MantBits
           q == n \div 2^d
           r == n % 2^d
           half == 2^(d - 1)
           up == r > half \/ (r = half /\ q % 2 = 1)
       IN [n |-> (IF up THEN q + 1 ELSE q) * 2^d, s |-> s]

\* int(x) of a non-negative float
int(x) == x.n \div 2^(x.s)

\* self.mem * ratio, mem an int and ratio a float
Times(m, x) == Fl(m * x.n, x.s)

\* 1 - self.dram_ratio, for a ratio in [0, 1]
OneMinus(x) == Fl(2^(x.s) - x.n, x.s)

\* def round_down(n, m): return int(n) // m * m
round_down(x, m) == (int(x) \div m) * m

\* def round_up(n, m): return (int(n) + m - 1) // m * m
round_up_one_more(x, m) == ((int(x) + 2 * m - 1) \div m) * m
round_up(x, m) == ((int(x) + m - 1) \div m) * m

dram_size(m, ratio) == round_down(Times(m, ratio), PageSize)
pmem_size(m, ratio) == round_up(Times(m, OneMinus(ratio)), PageSize)

\* The memory sizes tried: beyond 2^MantBits an int is no longer a float.
MaxSize == 2^(MantBits + 1)
Sizes == 1..MaxSize

\* The ratios tried: 0, 1 and every float of full significand from 2^-(MantBits+2)
\* up to 1.
Ratios ==
  {[n |-> 0, s |-> 0], [n |-> 1, s |-> 0]} \cup
  [n : (2^(MantBits - 1))..(2^MantBits - 1), s : MantBits..(2 * MantBits + 1)]

NoSizes == [state |-> "pending", dram |-> 0, pmem |-> 0]

InitSizes ==
  /\ call \in [op : {"sizes"}, mem : Sizes, ratio : Ratios, out : {NoSizes}]
  /\ IdlePool

\* The two properties are read on a Bench with call.mem and call.ratio.
SizesCall ==
  /\ call.op = "sizes" /\ call.out.state = "pending"
  /\ call' = [call EXCEPT !.out = [state |-> "returned",
                                    dram |-> dram_size(call.mem, call.ratio),
                                    pmem |-> pmem_size(call.mem, call.ratio)]]
  /\ UNCHANGED poolVars

NextSizes == SizesCall

SpecSizes == InitSizes /\ [][NextSizes]_vars

\* ------------------------------------- the balloon settle time
NoWait == [state |-> "pending", seconds |-> 0]

InitWait ==
  /\ call \in [op : {"balloon_wait"}, mem : Sizes, out : {NoWait}]
  /\ IdlePool

\* balloon_wait is computed for a Bench whose mem is call.mem bytes.
BalloonWaitCall ==
  /\ call.op = "balloon_wait" /\ call.out.state = "pending"
  /\ call' = [call EXCEPT !.out = [state |-> "returned",
                                    seconds |-> balloon_wait(call.mem)]]
  /\ UNCHANGED poolVars

NextWait == BalloonWaitCall

SpecWait == InitWait /\ [][NextWait]_vars

\* ------------------------------------- the names a Vm derives from its id
\* Text is a sequence of one-character strings.
Digits == << "0", "1", "2", "3", "4", "5", "6", "7", "8", "9",
             "a", "b", "c", "d", "e", "f" >>

\* str(n) in base b, n >= 0: no leading zero, "0" for 0
RECURSIVE Numeral(_, _)
Numeral(n, b) ==
  IF n < b THEN << Digits[n + 1] >>
  ELSE Append(Numeral(n \div b, b), Digits[(n % b) + 1])

\* f"{n:02x}": lower-case hex, padded with zeros to at least two digits
Hex02LowByte(n) ==
  LET h == Numeral(n % 256, 16) IN IF Len(h) < 2 THEN << "0" >> \o h ELSE h
Hex02(n) ==
  LET h == Numeral(n, 16) IN IF Len(h) < 2 THEN << "0" >> \o h ELSE h

\* self.bench.out_dir / str(self.id), relative to the pool's output directory
out_dir(id) == << "/" >> \o Numeral(id, 10)

\* f"ichb{self.id}"
tap(id) == << "i", "c", "h", "b" >> \o Numeral(id, 10)

\* f"192.168.92.{self.id + 100}"
ip(id) ==
  << "1", "9", "2", ".", "1", "6", "8", ".", "9", "2", "." >> \o Numeral(id + 100, 10)

\* f"2e:89:a8:e4:92:{self.id:02x}"
mac(id) ==
  << "2", "e", ":", "8", "9", ":", "a", "8", ":", "e", "4", ":", "9", "2", ":" >>
    \o Hex02(id)

VmNames(id) == [ip |-> ip(id), mac |-> mac(id), tap |-> tap(id), out_dir |-> out_dir(id)]

NoNames == << >>

InitNames ==
  /\ call \in [op : {"names"}, a : 0..MaxId, b : 0..MaxId, out : {NoNames}]
  /\ call.a <= call.b
  /\ IdlePool

\* Two Vm objects of one pool, with ids call.a and call.b, are asked for their names.
NamesCall ==
  /\ call.op = "names" /\ call.out = NoNames
  /\ call' = [call EXCEPT !.out = << VmNames(call.a), VmNames(call.b) >>]
  /\ UNCHANGED poolVars

NextNames == NamesCall

SpecNames == InitNames /\ [][NextNames]_vars

\* ------------------------------------- Vm.args: the CPU affinity
MaxCpus == 6
MaxVcpus == 3
MaxVms == 3

\* node_to_cpus(node): the CPU ids of the node in ascending order, none twice; the
\* empty list for a node without CPUs.
CpuLists == {[k \in 1..n |-> first + k - 1] : n \in 0..MaxCpus, first \in {0, 8}}

\* list(islice(cycle(s), skip, skip + take)), with cycle(s) read from position pos
\* of s onwards; cycle of an empty list yields nothing.
RECURSIVE IsliceCycle(_, _, _, _)
IsliceCycle(s, pos, skip, take) ==
  IF s = << >> \/ take = 0
  THEN << >>
  ELSE LET next == IF pos = Len(s) THEN 1 ELSE pos + 1
       IN IF skip > 0
          THEN IsliceCycle(s, next, skip - 1, take)
          ELSE << s[pos] >> \o IsliceCycle(s, next, 0, take - 1)

\* host_cpus = list(islice(cycle(node_to_cpus(cpu_node)), vcpus * id, vcpus * (id + 1)))
host_cpus_stride_one(cpus, vcpus, id) == IsliceCycle(cpus, 1, id, vcpus)
host_cpus(cpus, vcpus, id) ==
  IsliceCycle(cpus, 1, vcpus * id, vcpus * (id + 1) - vcpus * id)

\* affinity = ",".join(f"{v}@[{host_cpus}]" for v in range(vcpus)): the list of host
\* CPUs of each vCPU, vCPU v at index v + 1.
affinity_one_cpu_each(cpus, vcpus, id) ==
  [v \in 1..vcpus |-> IsliceCycle(host_cpus(cpus, vcpus, id), 1, v - 1, 1)]
affinity(cpus, vcpus, id) == [v \in 1..vcpus |-> host_cpus(cpus, vcpus, id)]

NoAffinity == << >>

InitAffinity ==
  /\ call \in [op : {"affinity"}, cpus : CpuLists, vcpus : 1..MaxVcpus, num : 1..MaxVms,
                out : {NoAffinity}]
  /\ IdlePool

\* [... Vm(id=i, bench=self) for i in range(self.num)]: the VMs of a pool of call.num
\* VMs with call.vcpus vCPUs each build their arguments; VM i at index i + 1.
AffinityCall ==
  /\ call.op = "affinity" /\ call.out = NoAffinity
  /\ call' = [call EXCEPT !.out = [i \in 1..call.num |->
                                     affinity(call.cpus, call.vcpus, i - 1)]]
  /\ UNCHANGED poolVars

NextAffinity == AffinityCall

SpecAffinity == InitAffinity /\ [][NextAffinity]_vars

\* ------------------------------------- Vm.args: memory zones and balloon
\* The ratios tried for the zones: 0, 1 and the floats from 1/4 up to 1/2.
ZoneRatios ==
  {[n |-> 0, s |-> 0], [n |-> 1, s |-> 0]} \cup
  [n : (2^(MantBits - 1))..(2^MantBits - 1), s : {MantBits + 1}]

\* zones=[...] if hetero else ["--memory-zone", f"id=ram,size={total_mem},..."]: the
\* id and size of each --memory-zone; a Balloon member is truthy, None is not.
zones_sized_to_share(het, bal, total_mem, dram, pmem) ==
  IF het
  THEN << [id |-> "dram", size |-> dram], [id |-> "pmem", size |-> pmem] >>
  ELSE << [id |-> "ram", size |-> total_mem] >>
zones(het, bal, total_mem, dram, pmem) ==
  IF het
  THEN << [id |-> "dram", size |-> IF bal # "none" THEN total_mem ELSE dram],
          [id |-> "pmem", size |-> IF bal # "none" THEN total_mem ELSE pmem] >>
  ELSE << [id |-> "ram", size |-> total_mem] >>

\* Balloon.to_size(total_mem, dram_avail, pmem_avail)
to_size_legacy_dram_only(bal, total_mem, dram_avail, pmem_avail) ==
  IF bal = "hetero"
  THEN << total_mem - dram_avail, total_mem - pmem_avail >>
  ELSE << total_mem - dram_avail, 0 >>
to_size(bal, total_mem, dram_avail, pmem_avail) ==
  IF bal = "hetero"
  THEN << total_mem - dram_avail, total_mem - pmem_avail >>
  ELSE << total_mem - dram_avail + total_mem - pmem_avail, 0 >>

\* Balloon.to_cmdline: f"size=[{d},{p}]", with heterogeneous_memory=on for hetero
to_cmdline(bal, total_mem, dram_avail, pmem_avail) ==
  [size |-> to_size(bal, total_mem, dram_avail, pmem_avail),
   heterogeneous_memory |-> bal = "hetero"]

\* balloon=["--balloon", to_cmdline(...) if hetero else "size=[0,0]"] if balloon
\* else []: the --balloon arguments, none without a balloon.
balloon_args(het, bal, total_mem, dram, pmem) ==
  IF bal = "none" THEN << >>
  ELSE IF het THEN << to_cmdline(bal, total_mem, dram, pmem) >>
       ELSE << [size |-> << 0, 0 >>, heterogeneous_memory |-> FALSE] >>

NoArgs == [state |-> "pending", zones |-> << >>, balloon |-> << >>, dram |-> 0, pmem |-> 0]

InitZones ==
  /\ call \in [op : {"args"}, hetero : BOOLEAN, balloon : Balloons, mem : Sizes,
                ratio : ZoneRatios, out : {NoArgs}]
  /\ IdlePool

\* Vm.__enter__ builds the arguments from bench.hetero, bench.balloon, bench.mem,
\* bench.dram_size and bench.pmem_size.
ArgsCall ==
  /\ call.op = "args" /\ call.out.state = "pending"
  /\ LET dram == dram_size(call.mem, call.ratio)
         pmem == pmem_size(call.mem, call.ratio)
     IN call' = [call EXCEPT !.out =
                   [state |-> "returned",
                    zones |-> zones(call.hetero, call.balloon, call.mem, dram, pmem),
                    balloon |-> balloon_args(call.hetero, call.balloon, call.mem, dram, pmem),
                    dram |-> dram,
                    pmem |-> pmem]]
  /\ UNCHANGED poolVars

NextZones == ArgsCall

SpecZones == InitZones /\ [][NextZones]_vars

\* ------------------------------------- utils.daemon on its own, and the teardown
\* One daemon() context: `at` is the position of the caller ("body": inside the with
\* block; "finally": the body has ended, by a return or an exception; "wait": the
\* termination signal is out and p.wait() is running; "closed": the context has
\* exited), proc the state of the daemon's process, signals the signals sent to it.
DaemonCalls ==
  [op : {"daemon"}, sudo : BOOLEAN, at : {"body"}, proc : {"running"}, signals : {0},
   exc : {NoExc}]

\* The body of the with block ends, normally or with an exception (an interrupt
\* among them): the finally clause starts.
DaemonBodyEnds ==
  /\ call.op = "daemon" /\ call.at = "body"
  /\ \E e \in {NoExc, Error("Exception", "body", -1), KeyboardInterrupt} :
       call' = [call EXCEPT !.at = "finally", !.exc = e]
  /\ UNCHANGED poolVars

\* os.killpg(os.getpgid(p.pid), signal.SIGTERM) if sudo else p.terminate().  With
\* p.terminate() a process that has already exited may be found so by the poll of
\* send_signal, which reaps it and sends nothing.
DaemonSignal ==
  /\ call.op = "daemon" /\ call.at = "finally"
  /\ \E polled \in (IF ~call.sudo /\ call.proc = "exited" THEN BOOLEAN ELSE {FALSE}) :
       call' = [call EXCEPT !.at = "wait",
                            !.signals = IF polled THEN @ ELSE @ + 1,
                            !.proc = IF polled THEN "reaped" ELSE @]
  /\ UNCHANGED poolVars

\* The daemon's process exits: on the termination signal, or on its own before it
\* (a hypervisor whose guest has powered off).
ProcessExits ==
  /\ call.op = "daemon" /\ call.proc = "running"
  /\ call' = [call EXCEPT !.proc = "exited"]
  /\ UNCHANGED poolVars

\* p.wait(), without a timeout, returns once the process has exited.
WaitReturnsAfterReap(proc) == proc = "reaped"
WaitReturns(proc) == proc \in {"exited", "reaped"}

\* p.wait() returns, the exit is logged and the context exits; an exception of the
\* body goes on to the caller.
DaemonWait ==
  /\ call.op = "daemon" /\ call.at = "wait"
  /\ WaitReturns(call.proc)
  /\ call' = [call EXCEPT !.at = "closed", !.proc = "reaped"]
  /\ UNCHANGED poolVars

\* A pool is run from start to exit while a daemon() context is used on its own.
InitTeardown ==
  /\ num \in 1..MaxNum
  /\ timeout \in {0, 1}
  /\ hetero \in BOOLEAN
  /\ balloon = "none"
  /\ mem = DefaultMem
  /\ outExists \in BOOLEAN
  /\ call \in DaemonCalls
  /\ InitState

NextTeardown ==
  \/ Next
  \/ DaemonBodyEnds
  \/ DaemonSignal
  \/ ProcessExits
  \/ DaemonWait

\* guests() is one thread of sequential code, so each step of the unwinding of its
\* ExitStack and of a daemon's finally clause is taken once it can be; a process
\* that was sent the termination signal exits (the assumption on the daemons).
FairTeardown ==
  /\ WF_vars(UnwindKvm)
  /\ WF_vars(UnwindVm)
  /\ WF_vars(UnwindChown)
  /\ WF_vars(DaemonSignal)
  /\ WF_vars(DaemonWait)
  /\ WF_vars(ProcessExits /\ call.at = "wait")

SpecTeardown == InitTeardown /\ [][NextTeardown]_vars /\ FairTeardown

\* ============================================================ properties
IsPrefix(s, t) == Len(s) <= Len(t) /\ SubSeq(t, 1, Len(s)) = s
Count(s, d) == Cardinality({i \in 1..Len(s) : s[i] = d})
Vms == 0..(num - 1)
AllStopped(v) == stopped[v] = Reverse(started[v])
Exited == pc = "done"

\* A batch of n VMs is affordable under the reading free: n per-VM requirements
\* (mem with a balloon, mem * dram_ratio without) fit into free.
Affordable(n, free) ==
  IF balloon = "none"
  THEN n * mem * RatioNum <= free * RatioDen
  ELSE n * mem <= free

\* C1: with hetero enabled, every batch _guests_prepare prepares holds at least one
\* VM and at most floor(free / per-VM requirement) VMs, free being the reading taken
\* right before the batch.
C1_BatchWithinFreeMemory ==
  \A i \in 1..Len(batches) :
    batches[i].gated =>
      /\ batches[i].hi - batches[i].lo >= 1
      /\ Affordable(batches[i].hi - batches[i].lo, batches[i].free)

\* A batch that memory cut short: some VM stayed pending because the next one would
\* not have fitted.
C1_Witness ==
  \E i \in 1..Len(batches) :
    /\ batches[i].gated
    /\ batches[i].lo > 0
    /\ ~Affordable(batches[i].hi - batches[i].lo + 1, batches[i].free)

\* C2: when the caller's body failed, every daemon started for any VM of the pool
\* has been terminated and waited for by the time guests() exits.
C2_FailedWorkloadLeaksNothing ==
  (Exited /\ workload \notin {"no", "ok"}) => \A v \in Vms : AllStopped(v)

\* C3: a daemon is never stopped more often than it was started (so never twice, and
\* never without having been started), and once a Vm's startup has failed or its
\* __exit__ has run, each daemon it started has been stopped exactly once.
C3_EachDaemonStoppedOnce ==
  \A v \in VmIds : \A d \in {"data", "out", "ch"} :
    /\ Count(started[v], d) <= 1
    /\ Count(stopped[v], d) <= Count(started[v], d)
    /\ (enterFail.vm = v \/ vmExit[v] # "none") =>
         Count(stopped[v], d) = Count(started[v], d)

\* C4: the daemons of a Vm start in the order data, out, ch, and its stop calls are
\* at every moment an initial part of the reverse of its starts: ch, then out, then
\* data.
C4_StopsReverseStarts ==
  \A v \in VmIds :
    /\ IsPrefix(started[v], AllDaemons)
    /\ IsPrefix(stopped[v], Reverse(started[v]))

\* A fully started Vm torn down on the normal path, and one on the abnormal path
\* after the startup of a later Vm was rolled back.
C4_Witness ==
  \/ \E v \in Vms : vmExit[v] = "clean" /\ stopped[v] = << "ch", "out", "data" >>
  \/ /\ enterFail.vm = 1 /\ stopped[1] = << "out", "data" >>
     /\ stopped[0] = << "ch", "out", "data" >> /\ ~Exited

\* C5: when the info request of Vm.__enter__ fails (no connection, or a status other
\* than 200), the hypervisor and both filesystem daemons are stopped when __enter__
\* raises, and what it raises to guests() is that failure.
C5_InfoFailureRollsBack ==
  (enterFail.step = "info" /\ enterFail.error.kind \in {"ConnectError", "RuntimeError"}) =>
    /\ stopped[enterFail.vm] = << "ch", "out", "data" >>
    /\ enterFail.raised = enterFail.error
    /\ (pc = "unwind" /\ Len(stack) = enterFail.vm + 1) => exc = enterFail.error

C5_Witness ==
  /\ enterFail.step = "info"
  /\ enterFail.error = Error("RuntimeError", "500", -1)
  /\ exc = enterFail.error
  /\ stopped[enterFail.vm] = << "ch", "out", "data" >>

\* C6: a Vm whose log collection, KVM log collection or shutdown request raised on
\* the normal teardown path still has its hypervisor and both filesystem daemons
\* stopped when guests() exits.
C6_CollectionErrorStillStops ==
  \A v \in Vms : (Exited /\ vmExit[v] = "raised") => stopped[v] = << "ch", "out", "data" >>

\* The operator's interrupt was delivered inside the pool scope.
Interrupted ==
  \/ enterFail.error = KeyboardInterrupt
  \/ \E v \in Vms : probes[v] # << >> /\ probes[v][Len(probes[v])] = "KeyboardInterrupt"
  \/ prepared.error = KeyboardInterrupt
  \/ workload = "KeyboardInterrupt"
  \/ \E v \in Vms : vmExit[v] = "interrupted"

\* C7: after an interrupt delivered once a daemon was started, every started daemon
\* has been stopped, in reverse order of start, when guests() exits.
C7_InterruptStopsEverything ==
  (Exited /\ Interrupted) => \A v \in Vms : AllStopped(v)

C11_FreeReadsBounded ==
  hetero =>
    /\ freeReads <= num + timeout
    /\ Len(batches) <= num /\ zeroChecks <= timeout
    /\ freeReads = Len(batches) + zeroChecks
                    + (IF prepared.error.kind = "TypeError" THEN 1 ELSE 0)
    /\ prepared.state = "returned" => remain = 0 \/ timeout = 0
    /\ (pc = "prepare" /\ timeout > 0) => freeReads < num + timeout

\* The longest run: one VM per batch, and a check that finds nothing before each
\* but the last.
C11_Witness ==
  /\ hetero /\ num = 2 /\ timeout = 2
  /\ prepared.state = "returned" /\ remain = 0
  /\ freeReads = num + timeout - 1

BatchSizes == [i \in 1..Len(batches) |-> batches[i].hi - batches[i].lo]

\* C12 as stated: in the end-to-end scenario admission proceeds as two batches, 2 VMs
\* and then 1 VM.
C12_TwoThenOne ==
  prepared.state = "returned" => BatchSizes = << 2, 1 >>

\* C12, amended: in the end-to-end scenario mem * dram_ratio = 6.4 GiB is needed per
\* VM, so the first check affords the whole pool: _guests_prepare never fails on
\* memory or on the batch bounds, forms no batch but one holding all the VMs, and
\* has formed it when it returns.
C12_OneBatchOfAll ==
  /\ zeroChecks = 0
  /\ prepared.error.kind \notin {"TypeError", "RuntimeError"}
  /\ \A i \in 1..Len(batches) : i = 1 /\ batches[i].lo = 0 /\ batches[i].hi = num
  /\ prepared.state = "returned" => Len(batches) = 1 /\ freeReads = 1

C12_Witness ==
  /\ prepared.state = "returned" /\ workload = "ok"
  /\ BatchSizes = << num >> /\ batches[1].free = E2EFree

\* C13: with hetero disabled, _guests_prepare never reads the free memory and forms
\* exactly one batch, which holds all num VMs and is not gated by any reading.
C13_UngatedSingleBatch ==
  ~hetero =>
    /\ freeReads = 0 /\ zeroChecks = 0
    /\ Len(batches) <= 1
    /\ prepared.state # "no" =>
         /\ Len(batches) = 1
         /\ batches[1].lo = 0 /\ batches[1].hi = num
         /\ ~batches[1].gated

C13_Witness ==
  /\ ~hetero /\ num = MaxNum
  /\ prepared.state = "returned"
  /\ BatchSizes = << num >> /\ freeReads = 0

HypervisorRunning(v) ==
  /\ \E i \in 1..Len(started[v]) : started[v][i] = "ch"
  /\ ~ \E i \in 1..Len(stopped[v]) : stopped[v][i] = "ch"

RECURSIVE Admitted(_)
Admitted(n) == IF n = 0 THEN 0 ELSE Admitted(n - 1) + BatchSizes[n]

\* C14 as stated: with hetero enabled no more hypervisors are running than VMs have
\* been admitted by a free-memory check so far.
C14_HypervisorsWithinAdmitted ==
  hetero =>
    Cardinality({v \in Vms : HypervisorRunning(v)}) <= Admitted(Len(batches))

\* C14, amended: with hetero enabled guests() starts the daemons and the hypervisor of
\* every VM of the pool before the first free-memory check; the admission batches
\* gate only the guest preparation commands.  Whenever the free memory has been read,
\* all three daemons of all num VMs have been started, and while _guests_prepare is
\* running all num hypervisors run, however few VMs have been admitted.
C14_AllStartedBeforeAdmission ==
  (hetero /\ freeReads > 0) =>
    /\ \A v \in Vms : started[v] = AllDaemons
    /\ pc = "prepare" => \A v \in Vms : HypervisorRunning(v)

C14_Witness ==
  /\ hetero /\ num = MaxNum /\ pc = "prepare"
  /\ freeReads > 0 /\ Admitted(Len(batches)) = 0
  /\ \A v \in Vms : HypervisorRunning(v)

\* C15: no GroupException or SSHException raised by a bulk guest command of the pool
\* scope (the preparation of a batch, the workload) leaves guests().
C15_SshFailureContained ==
  Exited => ~ /\ exc.kind \in {"GroupException", "SSHException"}
              /\ exc.msg \in {"prepare", "body"}

LogsCollected(v) ==
  /\ Len(collected[v]) >= 2
  /\ collected[v][1] = "collect_logs" /\ collected[v][2] = "collect_kvm_logs"

\* C16: after a workload failure that guests() catches, every VM of the pool has had
\* its guest logs and its KVM debug logs collected and its daemons stopped when
\* guests() exits.
C16_CaughtFailureCollectsAll ==
  (Exited /\ GuestsCatches(workload)) =>
    \A v \in Vms : LogsCollected(v) /\ AllStopped(v)

\* The pool scope is being left, or has been left, with an exception it does not
\* catch: one raised before the body ran, or by the body and not an SSH failure.
AbnormalShutdown ==
  /\ pc \in {"unwind", "done"}
  /\ workload \in {"no", "Exception", "KeyboardInterrupt"}

\* C17: on an abnormal shutdown no collection step and no guest shutdown request is
\* attempted for any VM, every Vm.__exit__ that has run has stopped its daemons,
\* and when guests() exits every started daemon of every VM has been stopped.
C17_AbnormalSkipsCollection ==
  AbnormalShutdown =>
    \A v \in Vms :
      /\ collected[v] = << >>
      /\ vmExit[v] \in {"none", "abnormal"}
      /\ vmExit[v] = "abnormal" => AllStopped(v)
      /\ Exited => AllStopped(v)

C17_Witness ==
  /\ Exited /\ num = MaxNum /\ workload = "Exception"
  /\ \A v \in Vms : /\ vmExit[v] = "abnormal" /\ collected[v] = << >>
                     /\ stopped[v] = << "ch", "out", "data" >>

\* C18: once the output directory was created, guests() exits only through the
\* ownership fix, and when the ownership fix is about to run every started daemon
\* of every VM has been stopped.
C18_ChownAfterAllStopped ==
  /\ (Exited /\ ~outExists) => stack = << >>
  /\ (pc = "unwind" /\ stack # << >> /\ Top.kind = "chown") =>
       \A v \in Vms : AllStopped(v)

\* C19: when the run's output directory already exists, guests() ends with
\* FileExistsError at once: no daemon is ever started, no callback registered, no
\* log file opened in the directory, and the `out` symlink stays as it was.
C19_ExistingDirFailsEarly ==
  outExists =>
    /\ pc \in {"open", "done"}
    /\ \A v \in VmIds : started[v] = << >>
    /\ stack = << >>
    /\ outLink = "previous" /\ ~outLog
    /\ Exited => exc = Error("FileExistsError", "", -1)

C19_Witness ==
  /\ outExists /\ Exited
  /\ exc.kind = "FileExistsError"
  /\ outLink = "previous" /\ ~outLog

TornDown(v) == vmExit[v] \in {"clean", "abnormal"}

\* C20: a Vm.__exit__ on a Vm that was already torn down stops no daemon, attempts
\* no guest command and raises nothing.
C20_SecondTeardownNoOp ==
  [][\A v \in Vms : (TornDown(v) /\ vmExit'[v] # vmExit[v]) =>
        /\ stopped' = stopped
        /\ collected' = collected
        /\ exc' = exc]_vars

AllConnFail(s) == \A i \in 1..Len(s) : s[i] = "NoValidConnectionsError"

\* C9: with a retry budget of at least 1, a VM all of whose probes fail to connect
\* is probed at most timeout times, is never declared booted, and fails exactly at
\* the timeout-th probe, with the boot-failure error naming its ordinal.
C9_ProbeBudgetExact ==
  \A v \in Vms :
    (timeout >= 1 /\ AllConnFail(probes[v])) =>
      /\ Len(probes[v]) <= timeout
      /\ booted[v] # "booted"
      /\ (booted[v] = "failed") <=> (Len(probes[v]) = timeout)
      /\ (booted[v] = "failed" /\ pc = "unwind" /\ Len(stack) = num + 1) =>
           exc = Error("RuntimeError", "failed to boot", v)

C9_Witness ==
  \E v \in Vms :
    /\ timeout >= 2 /\ v >= 1
    /\ AllConnFail(probes[v]) /\ Len(probes[v]) = timeout
    /\ booted[v] = "failed"
    /\ exc = Error("RuntimeError", "failed to boot", v)

\* C10: with hetero enabled and a retry budget of at least 1, _guests_prepare raises
\* the not-enough-memory error exactly when the timeout-th free-memory check that
\* found nothing affordable has happened with VMs still pending, and after it no
\* workload runs.
C10_NotEnoughMemoryExact ==
  (hetero /\ timeout >= 1) =>
    /\ zeroChecks <= timeout
    /\ (prepared.error = NotEnoughMemory) <=> (zeroChecks = timeout)
    /\ prepared.error = NotEnoughMemory =>
         /\ prepared.state = "raised"
         /\ remain > 0
         /\ workload = "no"
         /\ pc \in {"unwind", "done"}

C10_Witness ==
  /\ hetero /\ timeout >= 2 /\ Exited
  /\ prepared.error = NotEnoughMemory
  /\ zeroChecks = timeout
  /\ Len(batches) >= 1

\* The infrastructure failed before the benchmark (a VM's startup, its readiness, the
\* admission or the preparation raised) or during it (the SSH transport failed).
InfrastructureFailed ==
  \/ enterFail.vm >= 0
  \/ \E v \in Vms : booted[v] = "failed"
  \/ prepared.state = "raised"
  \/ workload = "SSHException"

\* C21: what Bench._benchmark / Bench.run report distinguishes the two kinds of failed
\* run: when the infrastructure failed before or during the benchmark an error
\* propagates to the caller, and when the benchmark ran and its command failed on a
\* guest (the fan-out GroupException) with a clean teardown the call returns.
C21_OutcomeTellsFailures ==
  Exited =>
    /\ InfrastructureFailed => exc # NoExc
    /\ (workload = "GroupException" /\ \A v \in Vms : vmExit[v] = "clean") =>
         exc.kind \in {"none", "CalledProcessError"}

\* C22: a get returns the response exactly when its status is 200, a put or patch
\* exactly when it is 204; with any other status the call raises RuntimeError whose
\* message is the response body, and returns no response.
C22_StatusDecidesOutcome ==
  call.op \in {"get", "put", "patch"} /\ call.out.state # "pending" =>
    LET expected == IF call.op = "get" THEN 200 ELSE 204 IN
    IF call.res.status = expected
    THEN call.out.state = "returned" /\ call.out.response = call.res
    ELSE /\ call.out.state = "raised"
         /\ call.out.raised = Error("RuntimeError", call.res.text, -1)
         /\ call.out.response = NoResponse

C22_Witness ==
  /\ call.op = "get" /\ call.res.status = 204 /\ call.res.text = "internal error"
  /\ call.out.state = "raised" /\ call.out.raised.msg = "internal error"

SizesReturned == call.op = "sizes" /\ call.out.state = "returned"
SizesOff == call.out.dram + call.out.pmem - call.mem

\* C23 as stated: for every mem and every ratio in [0, 1], dram_size + pmem_size
\* differs from mem by at most one page.
C23_WithinOnePage ==
  SizesReturned => SizesOff <= PageSize /\ -SizesOff <= PageSize

\* C23, amended: for every ratio in [0, 1] and every mem small enough to be a float
\* itself (below 2^MantBits here, below 2^53 bytes for the doubles of the source),
\* dram_size + pmem_size differs from mem by at most one page, both sizes are page
\* multiples, and dram_size never exceeds mem.
C23_WithinOnePageOfExactMem ==
  (SizesReturned /\ call.mem < 2^MantBits) =>
    /\ SizesOff <= PageSize /\ -SizesOff <= PageSize
    /\ call.out.dram % PageSize = 0 /\ call.out.pmem % PageSize = 0
    /\ call.out.dram <= call.mem

\* the two sizes fall short of a mem of several pages by exactly one page
C23_Witness ==
  /\ SizesReturned /\ call.mem < 2^MantBits
  /\ call.mem > 2 * PageSize
  /\ call.out.dram > 0 /\ call.out.pmem > 0
  /\ -SizesOff = PageSize

NamesReturned == call.op = "names" /\ call.out # NoNames

\* C24: the IP, the MAC, the tap name and the output subdirectory of a Vm depend on
\* its id only, and two Vms of one pool with distinct ids differ in each of the four.
C24_NamesDistinct ==
  NamesReturned =>
    /\ call.out[1] = VmNames(call.a)
    /\ call.a = call.b => call.out[1] = call.out[2]
    /\ call.a # call.b =>
         /\ call.out[1].ip # call.out[2].ip
         /\ call.out[1].mac # call.out[2].mac
         /\ call.out[1].tap # call.out[2].tap
         /\ call.out[1].out_dir # call.out[2].out_dir

\* ids one low byte apart: the MAC of id 256 ends in three hex digits
C24_Witness ==
  /\ NamesReturned /\ call.a = 0 /\ call.b = 256
  /\ call.out[1].mac # call.out[2].mac
  /\ Len(call.out[2].mac) = Len(call.out[1].mac) + 1

\* C25: when two consecutive free-memory checks both found no affordable VM, the
\* orchestrator has waited between them.
C25_BackoffBetweenZeroChecks ==
  \A i \in 1..(Len(readLog) - 1) :
    (readLog[i].batch = 0 /\ readLog[i + 1].batch = 0) =>
      readLog[i + 1].at > readLog[i].at

\* C26 as stated: each memory-gated batch is the front of the pending VMs, the
\* lowest ordinals not yet admitted.
C26_BatchIsFrontOfPending ==
  hetero =>
    \A i \in 1..Len(batches) :
      batches[i].lo = Admitted(i - 1) /\ batches[i].hi = Admitted(i)

\* C26, amended: each memory-gated batch is the end of the pending VMs, the highest
\* ordinals not yet admitted: no VM is admitted while a higher-ordinal VM is pending.
C26_BatchIsBackOfPending ==
  hetero =>
    \A i \in 1..Len(batches) :
      /\ batches[i].hi = num - Admitted(i - 1)
      /\ batches[i].lo = num - Admitted(i)
      /\ batches[i].lo < batches[i].hi

C26_Witness ==
  /\ hetero /\ num = 2 /\ Len(batches) = 2
  /\ batches[1].lo = 1 /\ batches[1].hi = 2
  /\ batches[2].lo = 0 /\ batches[2].hi = 1

\* C27: with a balloon configured, the group of an admitted batch has slept the whole
\* settle time (3 s per GiB of mem) before the next free-memory read, and every
\* batch of a preparation that returned has; with no balloon nothing is slept.
C27_SettleBeforeNextRead ==
  /\ \A i \in 1..(Len(readLog) - 1) :
       readLog[i + 1].at - readLog[i].at =
         (IF readLog[i].batch > 0 /\ balloon # "none" THEN mem * 3 ELSE 0)
  /\ balloon = "none" => Clock = 0
  /\ (balloon # "none" /\ prepared.state = "returned") =>
       \A i \in 1..Len(batches) : batches[i].settle = mem * 3

C27_Witness ==
  /\ balloon # "none" /\ Len(readLog) >= 2 /\ Len(batches) = 2
  /\ readLog[1].batch > 0 /\ readLog[2].at = mem * 3
  /\ prepared.state = "returned" /\ Clock = 2 * mem * 3

WaitReturned == call.op = "balloon_wait" /\ call.out.state = "returned"

\* C28 as stated: the settle wait is ceil(mem in GiB) * 3 seconds for every mem.
C28_WaitIsCeilGiB ==
  WaitReturned => call.out.seconds = ((call.mem + GiB - 1) \div GiB) * 3

\* C28, amended: the settle wait is floor(mem in GiB) * 3 seconds for every mem: the
\* started GiB does not count, a mem below 1 GiB waits 0 seconds, and the wait is
\* the ceil(mem in GiB) * 3 of the statement exactly for a mem of whole GiB.
C28_WaitIsFloorGiB ==
  WaitReturned =>
    /\ call.out.seconds % 3 = 0
    /\ (call.out.seconds \div 3) * GiB <= call.mem
    /\ call.mem < (call.out.seconds \div 3 + 1) * GiB
    /\ call.mem < GiB => call.out.seconds = 0
    /\ (call.out.seconds = ((call.mem + GiB - 1) \div GiB) * 3) <=> (call.mem % GiB = 0)

C28_Witness ==
  /\ WaitReturned /\ call.mem = 2 * GiB + 1
  /\ call.out.seconds = 6

Last(s) == s[Len(s)]
ProbedReady(v) == probes[v] # << >> /\ Last(probes[v]) = "ok"
ProbingFailed(v) ==
  \/ booted[v] = "failed"
  \/ probes[v] # << >> /\ Last(probes[v]) \in {"Exception", "KeyboardInterrupt"}

\* C29: a free-memory check or a preparation command happens only once a readiness
\* probe has succeeded for every VM of the pool, and never after the probing of
\* some VM has failed.
C29_PreparedOnlyWhenAllReady ==
  /\ (freeReads > 0 \/ batches # << >> \/ prepared.state # "no") =>
       \A v \in Vms : ProbedReady(v)
  /\ (\E v \in Vms : ProbingFailed(v)) =>
       freeReads = 0 /\ batches = << >> /\ prepared.state = "no"

\* C30: a probe that fails to connect is swallowed: with iterations left its VM is
\* probed again, and pool startup goes on.  A probe that fails otherwise is the last
\* probe of its VM and of the pool: its error starts the unwinding at once, the VM is
\* not declared booted, and neither preparation nor workload ever runs.
C30_OnlyConnectFailuresRetried ==
  \A v \in Vms : \A i \in 1..Len(probes[v]) :
    /\ (probes[v][i] = "NoValidConnectionsError" /\ i < timeout) =>
         \/ i < Len(probes[v])
         \/ pc = "wait" /\ cur = v /\ booted[v] = "pending" /\ exc = NoExc
    /\ probes[v][i] \in {"Exception", "KeyboardInterrupt"} =>
         /\ i = Len(probes[v])
         /\ pc \in {"unwind", "done"}
         /\ booted[v] = "pending"
         /\ \A w \in Vms : w > v => probes[w] = << >>
         /\ batches = << >> /\ freeReads = 0 /\ workload = "no"
         /\ Len(stack) = num + 1 => exc.kind = probes[v][i]

C30_Witness ==
  \E v \in Vms :
    /\ v >= 1 /\ Exited
    /\ probes[v] = << "NoValidConnectionsError", "Exception" >>
    /\ exc = Error("Exception", "probe", v)

\* The info request of VM v was answered with 200: __enter__ went on to the SSH
\* handle.
InfoAnswered(v) ==
  \/ pc = "enter" /\ cur = v /\ step = "ssh"
  \/ enterFail.vm = v /\ enterFail.step = "ssh"
  \/ \E i \in 1..Len(stack) : stack[i] = Callback("vm", v)

\* The info request of VM v failed to connect or was answered with another status.
InfoFailed(v) ==
  /\ enterFail.vm = v /\ enterFail.step = "info"
  /\ enterFail.error.kind \in {"ConnectError", "RuntimeError"}

\* C31: a get, put or patch call that has ended, by a return or by an error, sent
\* exactly one HTTP request, and so did the info call of every VM whose start-up got
\* past it or failed in it on an error of the request; no VM ever sent a second one.
C31_OneRequestPerCall ==
  /\ (call.op \in {"get", "put", "patch"} /\ call.out # Pending) => call.sent = 1
  /\ \A v \in Vms :
       /\ sent[v] <= 1
       /\ InfoAnswered(v) => sent[v] = 1
       /\ InfoFailed(v) => sent[v] = 1

\* A mutating call and the info request of a VM both failed, after one request each.
C31_Witness ==
  /\ call.op = "put" /\ call.out.state = "raised" /\ call.sent = 1
  /\ \E v \in Vms : InfoFailed(v) /\ sent[v] = 1
  /\ \E v \in Vms : InfoAnswered(v) /\ sent[v] = 1

\* C36: the start-up of a VM whose hypervisor was started never fails because the
\* info request was sent before the hypervisor had created its API socket: whatever
\* the order of the two, Vm.__enter__ gets past the info request.
C36_StartupSurvivesSocketRace ==
  \A v \in Vms :
    ~(/\ InfoFailed(v)
      /\ enterFail.error.kind = "ConnectError"
      /\ Count(started[v], "ch") = 1
      /\ ~socket[v])

AffinityReturned == call.op = "affinity" /\ call.out # NoAffinity
ToSet(s) == {s[k] : k \in 1..Len(s)}
\* The host CPUs of VM i, as a set (read off its vCPU 0).
CpuSet(i) == ToSet(call.out[i + 1][1])

\* C32: every vCPU of VM i is pinned to the same list of host CPUs, which holds, in
\* order, the CPUs at positions i*v .. (i+1)*v - 1 of the node's CPU list, the
\* positions taken modulo the length of the list (no CPU at all for an empty list).
C32_AffinityIsWrappedSlice ==
  AffinityReturned =>
    LET n == Len(call.cpus)
        v == call.vcpus
    IN \A i \in 0..(call.num - 1) : \A c \in 1..v :
         /\ Len(call.out[i + 1]) = v
         /\ call.out[i + 1][c] = call.out[i + 1][1]
         /\ IF n = 0
            THEN call.out[i + 1][c] = << >>
            ELSE call.out[i + 1][c] = [k \in 1..v |-> call.cpus[((i * v + k - 1) % n) + 1]]

\* A VM with several vCPUs whose positions run past the end of the CPU list.
C32_Witness ==
  /\ AffinityReturned
  /\ call.vcpus >= 2 /\ call.num >= 2
  /\ Len(call.cpus) > call.vcpus
  /\ Len(call.cpus) < 2 * call.vcpus
  /\ call.cpus[1] # 0

\* C40: when the node has at least num * vcpus CPUs, no host CPU is in the affinity
\* sets of two different VMs of the pool; with fewer CPUs every set is still drawn
\* from the node's CPUs (the positions wrap), and in a pool of two or more VMs on a
\* node with at least one CPU some two VMs share a CPU.
C40_DisjointWhenEnoughCpus ==
  AffinityReturned =>
    LET n == Len(call.cpus)
        ids == 0..(call.num - 1)
    IN /\ n >= call.num * call.vcpus =>
            \A i, j \in ids : i # j => CpuSet(i) \cap CpuSet(j) = {}
       /\ \A i \in ids : CpuSet(i) \subseteq ToSet(call.cpus)
       /\ (n < call.num * call.vcpus /\ n >= 1 /\ call.num >= 2) =>
            \E i, j \in ids : i # j /\ CpuSet(i) \cap CpuSet(j) # {}

\* A pool of several VMs that uses every CPU of the node exactly once.
C40_Witness ==
  /\ AffinityReturned
  /\ call.num >= 2 /\ call.vcpus >= 2
  /\ Len(call.cpus) = call.num * call.vcpus
  /\ \A i, j \in 0..(call.num - 1) : i # j => CpuSet(i) \cap CpuSet(j) = {}

ArgsReturned == call.op = "args" /\ call.out.state = "returned"
ZoneSize(id) == (CHOOSE z \in ToSet(call.out.zones) : z.id = id).size

\* C33: with heterogeneous memory there are exactly the zones dram and pmem; each is
\* as large as the VM's whole memory when a balloon is configured, and as large as
\* dram_size and pmem_size when none is.
C33_ZonesSizedByBalloon ==
  (ArgsReturned /\ call.hetero) =>
    /\ Len(call.out.zones) = 2
    /\ call.out.zones[1].id = "dram" /\ call.out.zones[2].id = "pmem"
    /\ IF call.balloon \in {"hetero", "legacy"}
       THEN ZoneSize("dram") = call.mem /\ ZoneSize("pmem") = call.mem
       ELSE /\ ZoneSize("dram") = dram_size(call.mem, call.ratio)
            /\ ZoneSize("pmem") = pmem_size(call.mem, call.ratio)

\* A VM with a balloon whose zones are both larger than its DRAM and PMEM shares.
C33_Witness ==
  /\ ArgsReturned /\ call.hetero /\ call.balloon = "legacy"
  /\ ZoneSize("dram") = call.mem /\ ZoneSize("dram") > call.out.dram
  /\ ZoneSize("pmem") = call.mem /\ ZoneSize("pmem") > call.out.pmem
  /\ call.out.dram > 0

BalloonSize(k) == call.out.balloon[1].size[k]

\* C39: with heterogeneous memory and a balloon of either kind, the two zone sizes
\* together, less the two balloon sizes together, are dram_size + pmem_size; with the
\* hetero balloon this holds zone by zone: the DRAM zone less the first balloon size
\* is dram_size and the PMEM zone less the second is pmem_size.
C39_UsableMemoryIsShares ==
  (ArgsReturned /\ call.hetero /\ call.balloon \in {"hetero", "legacy"}) =>
    /\ Len(call.out.balloon) = 1
    /\ (ZoneSize("dram") + ZoneSize("pmem")) - (BalloonSize(1) + BalloonSize(2))
         = dram_size(call.mem, call.ratio) + pmem_size(call.mem, call.ratio)
    /\ call.balloon = "hetero" =>
         /\ ZoneSize("dram") - BalloonSize(1) = dram_size(call.mem, call.ratio)
         /\ ZoneSize("pmem") - BalloonSize(2) = pmem_size(call.mem, call.ratio)

\* The legacy balloon takes the whole surplus of both zones in its first size.
C39_Witness ==
  /\ ArgsReturned /\ call.hetero /\ call.balloon = "legacy"
  /\ call.out.dram > 0 /\ call.out.pmem > 0
  /\ BalloonSize(2) = 0
  /\ BalloonSize(1) = 2 * call.mem - call.out.dram - call.out.pmem
  /\ BalloonSize(1) > call.mem - call.out.dram

\* C34: wait_for_boot of a VM has returned only if the last probe of that VM
\* succeeded, whatever the retry budget.
C34_BootedOnlyAfterProbe ==
  \A v \in Vms : booted[v] = "booted" => ProbedReady(v)

InBatch(v, b) == b.lo <= v /\ v < b.hi

\* C35: when _guests_prepare has returned, every VM of the pool is in exactly one of
\* the batches it prepared, whatever the retry budget, the hetero setting and the
\* free-memory readings.
C35_ReturnedMeansAllBatchedOnce ==
  prepared.state = "returned" =>
    \A v \in Vms : Cardinality({i \in 1..Len(batches) : InBatch(v, batches[i])}) = 1

\* C38: when the pool is torn down on its normal path (the body returned, or failed
\* with an SSH error that guests() catches) and the log collection of some VM
\* fails, log collection has still been attempted on every VM of the pool when
\* guests() exits.
C38_CollectionFailureSparesOthers ==
  (/\ Exited
   /\ workload = "ok" \/ GuestsCatches(workload)
   /\ \E v \in Vms : vmExit[v] = "raised") =>
    \A w \in Vms : collected[w] # << >>

====
